---- MODULE Spec2Model ----
(***************************************************************************)
(* Model of dags/booking_reconciliation_dag.py: the Airflow DAG            *)
(* booking_reconciliation_pipeline.  The raw CSV files are loaded into two *)
(* DuckDB staging tables, joined by the reconciliation query into          *)
(* reporting.booking_reconciliation and summarised by the report task.     *)
(*                                                                         *)
(* SQL NULL / pandas NaN / Python None is the empty tuple <<>>, a present  *)
(* value v is <<v>>.  Timestamps: staging.ga4_events.event_timestamp is in *)
(* microseconds and created_date in seconds, both counted from             *)
(* 2025-10-01 00:00:00 (START_DATE); dates are day numbers from that day.  *)
(* Amounts are whole currency units.  Columns that no later query reads    *)
(* (event_name, utm_campaign, opportunity_id, property_name,               *)
(* check_in_date, check_out_date, nights) are left out of the rows.        *)
(***************************************************************************)
EXTENDS Integers, Sequences, FiniteSets, TLC

VARIABLES
    raw_ga4_events,                \* /opt/airflow/data/raw_ga4_events.csv
    raw_salesforce_opportunities,  \* /opt/airflow/data/raw_salesforce_opportunities.csv
    flattened_df,                  \* local of extract_ga4_events
    sf_df,                         \* local of extract_salesforce_opportunities
    staging_ga4_events,            \* table staging.ga4_events
    staging_salesforce_opportunities, \* table staging.salesforce_opportunities
    booking_reconciliation,        \* table reporting.booking_reconciliation
    quality,                       \* return value of data_quality_checks
    report,                        \* result sets of generate_reconciliation_report
    task_state,                    \* position of every task of the DAG run
    failed_tries,                  \* attempts of every task that have failed in this run
    dag_run,                       \* number of the DAG run
    ieee_floating_point_ops        \* how this build of DuckDB divides a DOUBLE by zero

vars == <<raw_ga4_events, raw_salesforce_opportunities, flattened_df, sf_df,
          staging_ga4_events, staging_salesforce_opportunities,
          booking_reconciliation, quality, report, task_state,
          failed_tries, dag_run, ieee_floating_point_ops>>

\* what the steps of a task that succeeds leave alone
run_vars == <<failed_tries, dag_run, ieee_floating_point_ops>>

----------------------------------------------------------------------------
(* Bounds of the model *)

MaxGa4 == 2

MaxSf == 2

MaxDays == 11

MaxDagRuns == 2

----------------------------------------------------------------------------
(* NULL handling *)

Null == <<>>

Some(v) == <<v>>

IsNull(x) == x = Null

NotNull(x) == x # Null

\* SQL "a = b": true only when both operands are non-NULL and equal
SqlEq(a, b) == NotNull(a) /\ NotNull(b) /\ a[1] = b[1]

\* SQL "a != b": true only when both operands are non-NULL and differ
SqlNeq(a, b) == NotNull(a) /\ NotNull(b) /\ a[1] # b[1]

Coalesce(a, b) == IF NotNull(a) THEN a ELSE b

\* pandas.read_csv: an empty cell of a text column is NaN
ReadCsvCell(cell) == IF cell = "" THEN Null ELSE Some(cell)

SetMax(S) == CHOOSE x \in S : \A y \in S : y <= x

SeqsUpTo(S, n) == UNION {[1..k -> S] : k \in 0..n}

NoTable == [exists |-> FALSE, rows |-> <<>>]

Table(rows) == [exists |-> TRUE, rows |-> rows]

----------------------------------------------------------------------------
(* Task 1: extract_ga4_events *)

\* The event_params cell of the CSV is the text of a Python list of params;
\* eval returns the list when the text is well formed and raises otherwise.
\* CellText is the cell DataFrame.to_csv writes for a list, MalformedCell a
\* cell whose text eval cannot read.
CellText(event_params) == [well_formed |-> TRUE, value |-> event_params]

MalformedCell == [well_formed |-> FALSE, value |-> <<>>]

\* eval(row['event_params']), for a cell eval can read
Eval(cell) == cell.value

\* the param loop: params_dict[key] is set by every param that carries a
\* string_value or a double_value, a later param overwriting an earlier one
ParamsGet(event_params, key) ==
    LET hits == {i \in DOMAIN event_params :
                    /\ event_params[i].key = key
                    /\ \/ NotNull(event_params[i].string_value)
                       \/ NotNull(event_params[i].double_value)}
    IN  IF hits = {} THEN Null
        ELSE LET p == event_params[SetMax(hits)]
             IN  IF NotNull(p.string_value) THEN p.string_value
                 ELSE p.double_value

FlattenEvent(row) ==
    [event_date      |-> row.event_date,
     event_timestamp |-> row.event_timestamp,
     user_pseudo_id  |-> ReadCsvCell(row.user_pseudo_id),
     transaction_id  |-> ParamsGet(Eval(row.event_params), "transaction_id"),
     booking_value   |-> ParamsGet(Eval(row.event_params), "value"),
     gclid           |-> ParamsGet(Eval(row.event_params), "gclid"),
     utm_source      |-> ParamsGet(Eval(row.event_params), "utm_source")]

\* the rows of the file whose event_params eval cannot read
MalformedRecords(csv) == {i \in DOMAIN csv : ~csv[i].event_params.well_formed}

FlattenEvents(csv) == [i \in DOMAIN csv |-> FlattenEvent(csv[i])]

----------------------------------------------------------------------------
(* Task 2: extract_salesforce_opportunities *)

ReadSalesforceRow(row) ==
    [confirmation_number |-> ReadCsvCell(row.confirmation_number),
     created_date        |-> row.created_date,
     amount              |-> row.amount,
     stage_name          |-> ReadCsvCell(row.stage_name),
     booking_source      |-> ReadCsvCell(row.booking_source),
     gclid__c            |-> ReadCsvCell(row.gclid__c)]

ReadSalesforceCsv(csv) == [i \in DOMAIN csv |-> ReadSalesforceRow(csv[i])]

----------------------------------------------------------------------------
(* Task 4: build_reconciliation_model, the reconciliation query *)

StartEventDate == 20251001

MicrosPerSecond == 1000000

\* ga4_booking_value < 100
LowValueLimit == 100

\* LIMIT 10
TrendLimit == 10

\* STRPTIME(CAST(event_date AS VARCHAR), '%Y%m%d'), for the event dates of
\* October 2025 that the data covers: the day number counted from 2025-10-01
StrpDate(event_date) == event_date - StartEventDate

\* to_timestamp(event_timestamp / 1000000.0), in whole seconds (the query
\* reads the result only through DATEDIFF('minute', ...)); the session time
\* zone is UTC, so the later CAST to TIMESTAMP shifts nothing
ToTimestamp(event_timestamp) ==
    IF IsNull(event_timestamp) THEN Null
    ELSE Some(event_timestamp[1] \div MicrosPerSecond)

\* CAST(created_date AS DATE)
CastDate(created_date) ==
    IF IsNull(created_date) THEN Null ELSE Some(created_date[1] \div 86400)

\* the operands of DATEDIFF swapped
DateDiffMinuteSwapped(a, b) == (a \div 60) - (b \div 60)

\* DATEDIFF('minute', a, b): the number of minute boundaries from a to b
DateDiffMinute(a, b) == (b \div 60) - (a \div 60)

\* CASE WHEN user_pseudo_id = 'test_user_internal' THEN true ELSE false END
IsTestBooking(user_pseudo_id) == SqlEq(user_pseudo_id, Some("test_user_internal"))

Ga4BookingRow(r, i) ==
    [booking_date      |-> Some(StrpDate(r.event_date)),
     booking_timestamp |-> ToTimestamp(r.event_timestamp),
     user_pseudo_id    |-> r.user_pseudo_id,
     transaction_id    |-> r.transaction_id,
     booking_value     |-> r.booking_value,
     gclid             |-> r.gclid,
     utm_source        |-> r.utm_source,
     is_test_booking   |-> Some(IsTestBooking(r.user_pseudo_id)),
     src               |-> i]

\* WHERE transaction_id IS NOT NULL
Ga4Where(r) == NotNull(r.transaction_id)

\* the CTE ga4_bookings; src is the number of the staging row
Ga4Bookings(rows) ==
    LET keep == SelectSeq([i \in DOMAIN rows |-> i], LAMBDA i : Ga4Where(rows[i]))
    IN  [k \in DOMAIN keep |-> Ga4BookingRow(rows[keep[k]], keep[k])]

SfOpportunityRow(r, i) ==
    [opportunity_date      |-> CastDate(r.created_date),
     opportunity_timestamp |-> r.created_date,
     transaction_id        |-> r.confirmation_number,
     booking_value         |-> r.amount,
     stage_name            |-> r.stage_name,
     booking_source        |-> r.booking_source,
     gclid                 |-> r.gclid__c,
     src                   |-> i]

\* WHERE stage_name != 'Cancelled'
SfWhere(r) == SqlNeq(r.stage_name, Some("Cancelled"))

\* the CTE sf_opportunities; src is the number of the staging row
SfOpportunities(rows) ==
    LET keep == SelectSeq([i \in DOMAIN rows |-> i], LAMBDA i : SfWhere(rows[i]))
    IN  [k \in DOMAIN keep |-> SfOpportunityRow(rows[keep[k]], keep[k])]

\* the all-NULL row a FULL OUTER JOIN supplies for a missing side
NullGa4Booking ==
    [booking_date |-> Null, booking_timestamp |-> Null, user_pseudo_id |-> Null,
     transaction_id |-> Null, booking_value |-> Null, gclid |-> Null,
     utm_source |-> Null, is_test_booking |-> Null, src |-> 0]

NullSfOpportunity ==
    [opportunity_date |-> Null, opportunity_timestamp |-> Null,
     transaction_id |-> Null, booking_value |-> Null, stage_name |-> Null,
     booking_source |-> Null, gclid |-> Null, src |-> 0]

\* ON g.transaction_id = s.transaction_id
JoinOn(g, s) == SqlEq(g.transaction_id, s.transaction_id)

\* a join that keeps only the first partner of a left row
FirstPartner(g, S) ==
    LET p == SelectSeq([j \in DOMAIN S |-> j], LAMBDA j : JoinOn(g, S[j]))
    IN  IF p = <<>> THEN <<>> ELSE <<p[1]>>

\* the right rows a left row joins with, as indices into S
Partners(g, S) == SelectSeq([j \in DOMAIN S |-> j], LAMBDA j : JoinOn(g, S[j]))

RECURSIVE LeftJoinFrom(_, _, _)
\* the rows of the join that hold left row i or a later one: one row per
\* partner, or one row with the right side NULL when there is no partner
LeftJoinFrom(G, S, i) ==
    IF i > Len(G) THEN <<>>
    ELSE LET p == Partners(G[i], S)
         IN  (IF p = <<>> THEN << <<G[i], NullSfOpportunity>> >>
              ELSE [k \in DOMAIN p |-> <<G[i], S[p[k]]>>])
             \o LeftJoinFrom(G, S, i + 1)

\* right rows kept whether or not a left row joined them
RightAll(G, S) == [k \in DOMAIN S |-> <<NullGa4Booking, S[k]>>]

\* the right rows no left row joins with, the left side NULL
RightUnmatched(G, S) ==
    LET lone == SelectSeq([j \in DOMAIN S |-> j],
                          LAMBDA j : \A i \in DOMAIN G : ~JoinOn(G[i], S[j]))
    IN  [k \in DOMAIN lone |-> <<NullGa4Booking, S[lone[k]]>>]

\* a LEFT JOIN in place of the FULL OUTER JOIN
LeftJoinOnly(G, S) == LeftJoinFrom(G, S, 1)

\* FROM ga4_bookings g FULL OUTER JOIN sf_opportunities s ON ...
\* (the order of the rows is not fixed by SQL; no query below depends on it)
FullOuterJoin(G, S) == LeftJoinFrom(G, S, 1) \o RightUnmatched(G, S)

MatchStatus(g, s) ==
    IF NotNull(g.transaction_id) /\ NotNull(s.transaction_id) THEN Some("matched")
    ELSE IF NotNull(g.transaction_id) /\ IsNull(s.transaction_id) THEN Some("ga4_only")
    ELSE IF IsNull(g.transaction_id) /\ NotNull(s.transaction_id) THEN Some("sf_only")
    ELSE Null

GclidStatus(g, s) ==
    IF NotNull(g.gclid) /\ NotNull(s.gclid) /\ SqlEq(g.gclid, s.gclid) THEN "gclid_matched"
    ELSE IF NotNull(g.gclid) /\ IsNull(s.gclid) THEN "gclid_in_ga4_only"
    ELSE IF IsNull(g.gclid) /\ NotNull(s.gclid) THEN "gclid_in_sf_only"
    ELSE IF NotNull(g.gclid) /\ NotNull(s.gclid) /\ SqlNeq(g.gclid, s.gclid) THEN "gclid_mismatch"
    ELSE "no_gclid"

TimeDiffMinutes(g, s) ==
    IF NotNull(g.booking_timestamp) /\ NotNull(s.opportunity_timestamp)
    THEN Some(DateDiffMinute(g.booking_timestamp[1], s.opportunity_timestamp[1]))
    ELSE Null

\* the SELECT list; ga4_row and sf_row are not columns of the table: they
\* record which staging rows the row was joined from (0: none)
ReconciliationRow(g, s) ==
    [date              |-> Coalesce(g.booking_date, s.opportunity_date),
     transaction_id    |-> Coalesce(g.transaction_id, s.transaction_id),
     match_status      |-> MatchStatus(g, s),
     ga4_booking_value |-> g.booking_value,
     ga4_gclid         |-> g.gclid,
     ga4_utm_source    |-> g.utm_source,
     is_test_booking   |-> g.is_test_booking,
     sf_booking_value  |-> s.booking_value,
     stage_name        |-> s.stage_name,
     booking_source    |-> s.booking_source,
     sf_gclid          |-> s.gclid,
     gclid_status      |-> GclidStatus(g, s),
     time_diff_minutes |-> TimeDiffMinutes(g, s),
     ga4_row           |-> g.src,
     sf_row            |-> s.src]

ReconciliationQuery(ga4_rows, sf_rows) ==
    LET j == FullOuterJoin(Ga4Bookings(ga4_rows), SfOpportunities(sf_rows))
    IN  [k \in DOMAIN j |-> ReconciliationRow(j[k][1], j[k][2])]

----------------------------------------------------------------------------
(* Task 3: data_quality_checks *)

\* COUNT(*) - COUNT(DISTINCT transaction_id) ... WHERE transaction_id IS NOT NULL
Ga4Dupes(rows) ==
    LET keyed == {i \in DOMAIN rows : NotNull(rows[i].transaction_id)}
    IN  Cardinality(keyed) - Cardinality({rows[i].transaction_id[1] : i \in keyed})

\* the counts the task computes (ga4_dupes is printed, the others returned)
QualityCounts(ga4_rows, sf_rows) ==
    [ga4_nulls     |-> Cardinality({i \in DOMAIN ga4_rows : IsNull(ga4_rows[i].transaction_id)}),
     sf_nulls      |-> Cardinality({i \in DOMAIN sf_rows : IsNull(sf_rows[i].confirmation_number)}),
     ga4_dupes     |-> Ga4Dupes(ga4_rows),
     test_bookings |-> Cardinality({i \in DOMAIN ga4_rows :
                                       IsTestBooking(ga4_rows[i].user_pseudo_id)})]

----------------------------------------------------------------------------
(* Task 5: generate_reconciliation_report *)

\* WHERE match_status = 'matched'
IsMatchedRow(r) == SqlEq(r.match_status, Some("matched"))

RECURSIVE SumFrom(_, _)
SumFrom(values, i) ==
    IF i > Len(values) THEN 0
    ELSE (IF NotNull(values[i]) THEN values[i][1] ELSE 0) + SumFrom(values, i + 1)

\* SUM over the values of a column: NULLs are skipped, the sum of no value
\* is NULL
SqlSum(values) ==
    IF \A i \in DOMAIN values : IsNull(values[i]) THEN Null
    ELSE Some(SumFrom(values, 1))

\* n / d rounded to the nearest integer, halves away from zero (d > 0)
RoundDiv(n, d) ==
    IF n >= 0 THEN (2 * n + d) \div (2 * d) ELSE 0 - ((2 * (0 - n) + d) \div (2 * d))

\* a DOUBLE result: NULL, a number (val, in hundredths), NaN or an infinity
Num(kind, val) == [kind |-> kind, val |-> val]

\* a zero left total reported as a percentage of 0
DiffPercentageZero(total_ga4, total_sf, ieee) ==
    IF IsNull(total_ga4) \/ IsNull(total_sf) THEN Num("null", 0)
    ELSE IF total_ga4[1] = 0 THEN Num("num", 0)
    ELSE IF total_ga4[1] > 0
         THEN Num("num", RoundDiv((total_ga4[1] - total_sf[1]) * 10000, total_ga4[1]))
    ELSE Num("num", RoundDiv((total_sf[1] - total_ga4[1]) * 10000, 0 - total_ga4[1]))

\* ROUND((SUM(ga4) - SUM(sf)) / SUM(ga4) * 100, 2); ieee tells how this build
\* of DuckDB divides a DOUBLE by zero: IEEE 754 (NaN, infinity) or NULL
DiffPercentage(total_ga4, total_sf, ieee) ==
    IF IsNull(total_ga4) \/ IsNull(total_sf) THEN Num("null", 0)
    ELSE IF total_ga4[1] = 0
         THEN (IF ~ieee THEN Num("null", 0)
               ELSE IF total_ga4[1] - total_sf[1] = 0 THEN Num("nan", 0)
               ELSE Num("inf", IF total_ga4[1] - total_sf[1] > 0 THEN 1 ELSE -1))
    ELSE IF total_ga4[1] > 0
         THEN Num("num", RoundDiv((total_ga4[1] - total_sf[1]) * 10000, total_ga4[1]))
    ELSE Num("num", RoundDiv((total_sf[1] - total_ga4[1]) * 10000, 0 - total_ga4[1]))

\* the sums taken over every row, the WHERE clause forgotten
RevenueRowsAll(rows) == rows

RevenueRows(rows) == SelectSeq(rows, IsMatchedRow)

RevenueSummary(rows, ieee) ==
    LET m   == RevenueRows(rows)
        ga4 == SqlSum([i \in DOMAIN m |-> m[i].ga4_booking_value])
        sf  == SqlSum([i \in DOMAIN m |-> m[i].sf_booking_value])
    IN  [total_ga4_revenue  |-> ga4,
         total_sf_revenue   |-> sf,
         revenue_difference |-> IF IsNull(ga4) \/ IsNull(sf) THEN Null
                                ELSE Some(ga4[1] - sf[1]),
         diff_percentage    |-> DiffPercentage(ga4, sf, ieee)]

\* GROUP BY with COUNT(*): one group per value that occurs in the sequence
\* of grouping values (NULL is a value here), with the number of its rows.
\* The queries order their groups by the count, which leaves the order of
\* groups of equal size open; a result of such a query is the set of its rows.
GroupCounts(keys) ==
    {[key |-> k, count |-> Cardinality({i \in DOMAIN keys : keys[i] = k})] :
        k \in {keys[i] : i \in DOMAIN keys}}

\* the share as a fraction, the factor 100.0 left out
FractionOfTotal(count, total) == RoundDiv(count * 100, total)

\* ROUND(count * 100.0 / total, 2), in hundredths
Percentage(count, total) == RoundDiv(count * 10000, total)

\* SUM(COUNT(*)) OVER (): the counts of all groups added up
RECURSIVE SumCounts(_)
SumCounts(groups) ==
    IF groups = {} THEN 0
    ELSE LET g == CHOOSE x \in groups : TRUE IN g.count + SumCounts(groups \ {g})

MatchSummary(rows) ==
    LET groups == GroupCounts([i \in DOMAIN rows |-> rows[i].match_status])
    IN  {[match_status |-> g.key, record_count |-> g.count,
          percentage |-> Percentage(g.count, SumCounts(groups))] : g \in groups}

GclidSummary(rows) ==
    LET m      == SelectSeq(rows, IsMatchedRow)
        groups == GroupCounts([i \in DOMAIN m |-> m[i].gclid_status])
    IN  {[gclid_status |-> g.key, record_count |-> g.count,
          percentage |-> Percentage(g.count, SumCounts(groups))] : g \in groups}

\* WHERE match_status = 'ga4_only'
IsGa4OnlyRow(r) == SqlEq(r.match_status, Some("ga4_only"))

\* WHERE match_status = 'sf_only'
IsSfOnlyRow(r) == SqlEq(r.match_status, Some("sf_only"))

\* the amount tested before the test flag
LikelyReasonValueFirst(r) ==
    IF NotNull(r.ga4_booking_value) /\ r.ga4_booking_value[1] < LowValueLimit
    THEN "Low Value (Possible Fraud)"
    ELSE IF r.is_test_booking = Some(TRUE) THEN "Test Booking"
    ELSE "Unknown - Needs Investigation"

\* the CASE of ga4_only_analysis: a WHEN whose condition is NULL is not taken
LikelyReason(r) ==
    IF r.is_test_booking = Some(TRUE) THEN "Test Booking"
    ELSE IF NotNull(r.ga4_booking_value) /\ r.ga4_booking_value[1] < LowValueLimit
    THEN "Low Value (Possible Fraud)"
    ELSE "Unknown - Needs Investigation"

Ga4OnlyAnalysis(rows) ==
    LET sel    == SelectSeq(rows, IsGa4OnlyRow)
        groups == GroupCounts([i \in DOMAIN sel |-> LikelyReason(sel[i])])
    IN  {[likely_reason |-> g.key, count |-> g.count] : g \in groups}

SfOnlyAnalysis(rows) ==
    LET sel    == SelectSeq(rows, IsSfOnlyRow)
        groups == GroupCounts([i \in DOMAIN sel |-> sel[i].booking_source])
    IN  {[booking_source |-> g.key, count |-> g.count] : g \in groups}

\* ORDER BY date DESC over the dates that are not NULL
RECURSIVE SortDesc(_)
SortDesc(S) ==
    IF S = {} THEN <<>>
    ELSE <<SetMax(S)>> \o SortDesc(S \ {SetMax(S)})

\* ORDER BY date DESC (NULLS LAST, the default of DuckDB)
DateGroups(rows) ==
    LET dates  == {rows[i].date : i \in DOMAIN rows}
        sorted == SortDesc({d[1] : d \in {x \in dates : NotNull(x)}})
    IN  [i \in DOMAIN sorted |-> Some(sorted[i])]
        \o (IF Null \in dates THEN <<Null>> ELSE <<>>)

\* the trend without the LIMIT
LimitNone(result, n) == result

\* LIMIT n
Limit(result, n) == SubSeq(result, 1, IF Len(result) < n THEN Len(result) ELSE n)

\* one row of daily_trend: the group of date
TrendRow(rows, date) ==
    LET group   == {i \in DOMAIN rows : rows[i].date = date}
        matched == Cardinality({i \in group : IsMatchedRow(rows[i])})
    IN  [date           |-> date,
         total_bookings |-> Cardinality(group),
         matched        |-> matched,
         match_rate_pct |-> Percentage(matched, Cardinality(group))]

DailyTrend(rows) ==
    LET dates == DateGroups(rows)
    IN  Limit([i \in DOMAIN dates |-> TrendRow(rows, dates[i])], TrendLimit)

\* the result sets of the six queries of the report
Report(rows, ieee) ==
    [match_summary     |-> MatchSummary(rows),
     gclid_summary     |-> GclidSummary(rows),
     ga4_only_analysis |-> Ga4OnlyAnalysis(rows),
     sf_only_analysis  |-> SfOnlyAnalysis(rows),
     daily_trend       |-> DailyTrend(rows),
     revenue_summary   |-> RevenueSummary(rows, ieee)]

----------------------------------------------------------------------------
(* The DAG *)

Tasks == {"generate_sample_data", "extract_ga4_events",
          "extract_salesforce_opportunities", "data_quality_checks",
          "build_reconciliation_model", "generate_reconciliation_report"}

\* the tasks chained one after the other, the Salesforce extract on the side
UpstreamInChain(t) ==
    CASE t = "generate_sample_data" -> {}
      [] t = "extract_ga4_events" -> {"generate_sample_data"}
      [] t = "extract_salesforce_opportunities" -> {"generate_sample_data"}
      [] t = "data_quality_checks" -> {"extract_ga4_events"}
      [] t = "build_reconciliation_model" -> {"data_quality_checks"}
      [] t = "generate_reconciliation_report" -> {"build_reconciliation_model"}

\* generate_task >> [ga4_task, sf_task] >> quality_task >> reconcile_task >> report_task
Upstream(t) ==
    CASE t = "generate_sample_data" -> {}
      [] t = "extract_ga4_events" -> {"generate_sample_data"}
      [] t = "extract_salesforce_opportunities" -> {"generate_sample_data"}
      [] t = "data_quality_checks" -> {"extract_ga4_events", "extract_salesforce_opportunities"}
      [] t = "build_reconciliation_model" -> {"data_quality_checks"}
      [] t = "generate_reconciliation_report" -> {"build_reconciliation_model"}

\* a task starts, or starts again after a failed attempt, once every task
\* upstream of it has succeeded (trigger rule all_success)
CanStart(t) ==
    /\ task_state[t] \in {"none", "up_for_retry"}
    /\ \A u \in Upstream(t) : task_state[u] = "success"

\* the task writes the two raw files; their contents are fixed at the start
\* of the run (see the section on the raw files)
GenerateSampleData ==
    /\ CanStart("generate_sample_data")
    /\ task_state' = [task_state EXCEPT !["generate_sample_data"] = "success"]
    /\ UNCHANGED <<raw_ga4_events, raw_salesforce_opportunities, flattened_df, sf_df,
                   staging_ga4_events, staging_salesforce_opportunities,
                   booking_reconciliation, quality, report>>
    /\ UNCHANGED run_vars

\* pd.read_csv and the flattening loop
ExtractGa4Flatten ==
    /\ CanStart("extract_ga4_events")
    /\ MalformedRecords(raw_ga4_events) = {}
    /\ flattened_df' = FlattenEvents(raw_ga4_events)
    /\ task_state' = [task_state EXCEPT !["extract_ga4_events"] = "flattened"]
    /\ UNCHANGED <<raw_ga4_events, raw_salesforce_opportunities, sf_df,
                   staging_ga4_events, staging_salesforce_opportunities,
                   booking_reconciliation, quality, report>>
    /\ UNCHANGED run_vars

\* DROP TABLE IF EXISTS staging.ga4_events
ExtractGa4Drop ==
    /\ task_state["extract_ga4_events"] = "flattened"
    /\ staging_ga4_events' = NoTable
    /\ task_state' = [task_state EXCEPT !["extract_ga4_events"] = "dropped"]
    /\ UNCHANGED <<raw_ga4_events, raw_salesforce_opportunities, flattened_df, sf_df,
                   staging_salesforce_opportunities, booking_reconciliation,
                   quality, report>>
    /\ UNCHANGED run_vars

\* CREATE TABLE staging.ga4_events AS SELECT * FROM flattened_df
ExtractGa4Create ==
    /\ task_state["extract_ga4_events"] = "dropped"
    /\ staging_ga4_events' = Table(flattened_df)
    /\ task_state' = [task_state EXCEPT !["extract_ga4_events"] = "success"]
    /\ UNCHANGED <<raw_ga4_events, raw_salesforce_opportunities, flattened_df, sf_df,
                   staging_salesforce_opportunities, booking_reconciliation,
                   quality, report>>
    /\ UNCHANGED run_vars

\* pd.read_csv and the pd.to_datetime conversions
ExtractSfRead ==
    /\ CanStart("extract_salesforce_opportunities")
    /\ sf_df' = ReadSalesforceCsv(raw_salesforce_opportunities)
    /\ task_state' = [task_state EXCEPT !["extract_salesforce_opportunities"] = "read"]
    /\ UNCHANGED <<raw_ga4_events, raw_salesforce_opportunities, flattened_df,
                   staging_ga4_events, staging_salesforce_opportunities,
                   booking_reconciliation, quality, report>>
    /\ UNCHANGED run_vars

\* the DROP of the other extract's table
ExtractSfDropGa4 ==
    /\ task_state["extract_salesforce_opportunities"] = "read"
    /\ staging_ga4_events' = NoTable
    /\ task_state' = [task_state EXCEPT !["extract_salesforce_opportunities"] = "dropped"]
    /\ UNCHANGED <<raw_ga4_events, raw_salesforce_opportunities, flattened_df, sf_df,
                   staging_salesforce_opportunities, booking_reconciliation, quality, report>>
    /\ UNCHANGED run_vars

\* DROP TABLE IF EXISTS staging.salesforce_opportunities
ExtractSfDrop ==
    /\ task_state["extract_salesforce_opportunities"] = "read"
    /\ staging_salesforce_opportunities' = NoTable
    /\ task_state' = [task_state EXCEPT !["extract_salesforce_opportunities"] = "dropped"]
    /\ UNCHANGED <<raw_ga4_events, raw_salesforce_opportunities, flattened_df, sf_df,
                   staging_ga4_events, booking_reconciliation, quality, report>>
    /\ UNCHANGED run_vars

\* CREATE TABLE staging.salesforce_opportunities AS SELECT * FROM sf_df
ExtractSfCreate ==
    /\ task_state["extract_salesforce_opportunities"] = "dropped"
    /\ staging_salesforce_opportunities' = Table(sf_df)
    /\ task_state' = [task_state EXCEPT !["extract_salesforce_opportunities"] = "success"]
    /\ UNCHANGED <<raw_ga4_events, raw_salesforce_opportunities, flattened_df, sf_df,
                   staging_ga4_events, booking_reconciliation, quality, report>>
    /\ UNCHANGED run_vars

DataQualityChecks ==
    /\ CanStart("data_quality_checks")
    /\ staging_ga4_events.exists /\ staging_salesforce_opportunities.exists
    /\ quality' = Some(QualityCounts(staging_ga4_events.rows,
                                     staging_salesforce_opportunities.rows))
    /\ task_state' = [task_state EXCEPT !["data_quality_checks"] = "success"]
    /\ UNCHANGED <<raw_ga4_events, raw_salesforce_opportunities, flattened_df, sf_df,
                   staging_ga4_events, staging_salesforce_opportunities,
                   booking_reconciliation, report>>
    /\ UNCHANGED run_vars

\* the result of the query appended to the table that is there
InsertInto(old, rows) == Table(old.rows \o rows)

\* CREATE OR REPLACE TABLE ... AS: the table holds the result of the query,
\* whatever it held before
CreateOrReplace(old, rows) == Table(rows)

\* the reconciliation table replaced and the staging tables dropped
BuildAndDropStaging ==
    /\ CanStart("build_reconciliation_model")
    /\ staging_ga4_events.exists /\ staging_salesforce_opportunities.exists
    /\ booking_reconciliation' =
           CreateOrReplace(booking_reconciliation,
                           ReconciliationQuery(staging_ga4_events.rows,
                                               staging_salesforce_opportunities.rows))
    /\ staging_ga4_events' = NoTable
    /\ staging_salesforce_opportunities' = NoTable
    /\ task_state' = [task_state EXCEPT !["build_reconciliation_model"] = "success"]
    /\ UNCHANGED <<raw_ga4_events, raw_salesforce_opportunities, flattened_df, sf_df,
                   quality, report>>
    /\ UNCHANGED run_vars

\* CREATE OR REPLACE TABLE reporting.booking_reconciliation AS ...
BuildReconciliationModel ==
    /\ CanStart("build_reconciliation_model")
    /\ staging_ga4_events.exists /\ staging_salesforce_opportunities.exists
    /\ booking_reconciliation' =
           CreateOrReplace(booking_reconciliation,
                           ReconciliationQuery(staging_ga4_events.rows,
                                               staging_salesforce_opportunities.rows))
    /\ task_state' = [task_state EXCEPT !["build_reconciliation_model"] = "success"]
    /\ UNCHANGED <<raw_ga4_events, raw_salesforce_opportunities, flattened_df, sf_df,
                   staging_ga4_events, staging_salesforce_opportunities,
                   quality, report>>
    /\ UNCHANGED run_vars

GenerateReconciliationReport ==
    /\ CanStart("generate_reconciliation_report")
    /\ booking_reconciliation.exists
    /\ report' = Some(Report(booking_reconciliation.rows, ieee_floating_point_ops))
    /\ task_state' = [task_state EXCEPT !["generate_reconciliation_report"] = "success"]
    /\ UNCHANGED <<raw_ga4_events, raw_salesforce_opportunities, flattened_df, sf_df,
                   staging_ga4_events, staging_salesforce_opportunities,
                   booking_reconciliation, quality>>
    /\ UNCHANGED run_vars

\* 'retries': 1
Retries == 1

\* an attempt of task t ends in an exception: the task is tried again
\* (after retry_delay) until it has failed Retries + 1 times
Fail(t) ==
    /\ task_state' = [task_state EXCEPT
                         ![t] = IF failed_tries[t] < Retries THEN "up_for_retry" ELSE "failed"]
    /\ failed_tries' = [failed_tries EXCEPT ![t] = @ + 1]

\* eval raises on the first record it cannot read: nothing is caught, the
\* attempt ends before the database is opened
ExtractGa4Raises ==
    /\ CanStart("extract_ga4_events")
    /\ MalformedRecords(raw_ga4_events) # {}
    /\ Fail("extract_ga4_events")
    /\ UNCHANGED <<raw_ga4_events, raw_salesforce_opportunities, flattened_df, sf_df,
                   staging_ga4_events, staging_salesforce_opportunities,
                   booking_reconciliation, quality, report, dag_run,
                   ieee_floating_point_ops>>

\* an attempt of extract_ga4_events ends after the flattening: connect
\* cannot lock the database file the other extract holds open, a statement
\* raises or the worker is lost.  Every statement commits by itself, so a
\* DROP that was executed stays.
ExtractGa4Aborts ==
    /\ task_state["extract_ga4_events"] \in {"flattened", "dropped"}
    /\ Fail("extract_ga4_events")
    /\ flattened_df' = <<>>
    /\ UNCHANGED <<raw_ga4_events, raw_salesforce_opportunities, sf_df,
                   staging_ga4_events, staging_salesforce_opportunities,
                   booking_reconciliation, quality, report, dag_run,
                   ieee_floating_point_ops>>

\* the same for extract_salesforce_opportunities
ExtractSfAborts ==
    /\ task_state["extract_salesforce_opportunities"] \in {"read", "dropped"}
    /\ Fail("extract_salesforce_opportunities")
    /\ sf_df' = <<>>
    /\ UNCHANGED <<raw_ga4_events, raw_salesforce_opportunities, flattened_df,
                   staging_ga4_events, staging_salesforce_opportunities,
                   booking_reconciliation, quality, report, dag_run,
                   ieee_floating_point_ops>>

\* an attempt of one of the other tasks ends before it has written anything
\* (the file or the database cannot be opened, the worker is lost)
AttemptFails(t) ==
    /\ CanStart(t)
    /\ Fail(t)
    /\ UNCHANGED <<raw_ga4_events, raw_salesforce_opportunities, flattened_df, sf_df,
                   staging_ga4_events, staging_salesforce_opportunities,
                   booking_reconciliation, quality, report, dag_run,
                   ieee_floating_point_ops>>

\* no task of the run is running or can still start
RunOver ==
    \A t \in Tasks : ~CanStart(t) /\ task_state[t] \in {"none", "success", "failed"}

\* the next scheduled run of the DAG (schedule_interval '@daily'): every
\* task starts over; the database and the files stay as the last run left
\* them, and generate_sample_data writes the same files again (the
\* generator is seeded)
StartDagRun ==
    /\ RunOver
    /\ dag_run < MaxDagRuns
    /\ dag_run' = dag_run + 1
    /\ task_state' = [t \in Tasks |-> "none"]
    /\ failed_tries' = [t \in Tasks |-> 0]
    /\ flattened_df' = <<>>
    /\ sf_df' = <<>>
    /\ UNCHANGED <<raw_ga4_events, raw_salesforce_opportunities,
                   staging_ga4_events, staging_salesforce_opportunities,
                   booking_reconciliation, quality, report, ieee_floating_point_ops>>

\* the steps of a run in which no attempt fails
Next ==
    \/ GenerateSampleData
    \/ ExtractGa4Flatten
    \/ ExtractGa4Drop
    \/ ExtractGa4Create
    \/ ExtractSfRead
    \/ ExtractSfDrop
    \/ ExtractSfCreate
    \/ DataQualityChecks
    \/ BuildReconciliationModel
    \/ GenerateReconciliationReport

\* the steps of the scheduled runs, failed attempts and retries included
NextDag ==
    \/ Next
    \/ ExtractGa4Raises
    \/ ExtractGa4Aborts
    \/ ExtractSfAborts
    \/ \E t \in {"generate_sample_data", "data_quality_checks",
                  "build_reconciliation_model", "generate_reconciliation_report"} :
          AttemptFails(t)
    \/ StartDagRun

----------------------------------------------------------------------------
(* The raw files.  Their contents are the input of the pipeline: a run     *)
(* starts with any files of the format generate_sample_data writes, cells  *)
(* and params that may be missing or empty included, not only with the     *)
(* bookings the seeded generator draws.  Each specification below varies   *)
(* some columns and keeps the others fixed.                                *)

Param(key, string_value, double_value) ==
    [key |-> key, string_value |-> string_value, double_value |-> double_value]

\* event_params as generate_sample_data builds it: one param per value present
EventParams(transaction_id, value, gclid, utm_source) ==
    (IF IsNull(transaction_id) THEN <<>>
     ELSE <<Param("transaction_id", transaction_id, Null)>>)
    \o (IF IsNull(value) THEN <<>> ELSE <<Param("value", Null, value)>>)
    \o (IF IsNull(gclid) THEN <<>> ELSE <<Param("gclid", gclid, Null)>>)
    \o (IF IsNull(utm_source) THEN <<>> ELSE <<Param("utm_source", utm_source, Null)>>)

Ga4CsvRows(dates, timestamps, users, ids, values, gclids, sources) ==
    {[event_date |-> d, event_timestamp |-> ts, user_pseudo_id |-> u,
      event_params |-> CellText(EventParams(id, v, g, s))] :
        d \in dates, ts \in timestamps, u \in users, id \in ids,
        v \in values, g \in gclids, s \in sources}

SfCsvRows(numbers, created, amounts, stages, sources, gclids) ==
    {[confirmation_number |-> n, created_date |-> c, amount |-> a,
      stage_name |-> st, booking_source |-> b, gclid__c |-> g] :
        n \in numbers, c \in created, a \in amounts, st \in stages,
        b \in sources, g \in gclids}

\* The files the load steps accept with the column types of the generator's
\* files: CREATE TABLE ... AS SELECT * FROM flattened_df needs a DataFrame
\* with columns, hence an event, and a text column is typed VARCHAR by pandas
\* and DuckDB only if it holds a value; the query compares these columns with
\* text (transaction_id, gclid, user_pseudo_id, stage_name).
TypedFiles(ga4_csv, sf_csv) ==
    /\ {i \in DOMAIN ga4_csv :
           NotNull(ParamsGet(Eval(ga4_csv[i].event_params), "transaction_id"))} # {}
    /\ {i \in DOMAIN ga4_csv : NotNull(ParamsGet(Eval(ga4_csv[i].event_params),
                                                     "gclid"))} # {}
    /\ {i \in DOMAIN ga4_csv : ga4_csv[i].user_pseudo_id # ""} # {}
    /\ {j \in DOMAIN sf_csv : sf_csv[j].confirmation_number # ""} # {}
    /\ {j \in DOMAIN sf_csv : sf_csv[j].stage_name # ""} # {}
    /\ {j \in DOMAIN sf_csv : sf_csv[j].gclid__c # ""} # {}

\* the start of the first DAG run over one of the given files
InitFiles(ga4_files, sf_files, builds) ==
    /\ ieee_floating_point_ops \in builds
    /\ raw_ga4_events \in ga4_files
    /\ raw_salesforce_opportunities \in sf_files
    /\ TypedFiles(raw_ga4_events, raw_salesforce_opportunities)
    /\ flattened_df = <<>>
    /\ sf_df = <<>>
    /\ staging_ga4_events = NoTable
    /\ staging_salesforce_opportunities = NoTable
    /\ booking_reconciliation = NoTable
    /\ quality = Null
    /\ report = Null
    /\ task_state = [t \in Tasks |-> "none"]
    /\ failed_tries = [t \in Tasks |-> 0]
    /\ dag_run = 1

InitWith(ga4_rows, sf_rows, builds) ==
    InitFiles(SeqsUpTo(ga4_rows, MaxGa4), SeqsUpTo(sf_rows, MaxSf), builds)

\* keys and stages vary: missing, empty and duplicate keys, cancelled and
\* missing stages
Init ==
    InitWith(Ga4CsvRows({20251002}, {Some(90000000)}, {"user_1"},
                        {Null, Some(""), Some("A"), Some("B")},
                        {Some(300)}, {Some("g1")}, {Some("google")}),
             SfCsvRows({"", "A", "B"}, {Some(400)}, {Some(300)},
                       {"", "Cancelled", "Confirmed"}, {"google"}, {"g1"}),
             {TRUE})

Spec == Init /\ [][Next]_vars

\* click ids vary: missing, empty, equal and different on the two sides
InitAttribution ==
    InitWith(Ga4CsvRows({20251001}, {Some(90000000)}, {"user_1"},
                        {Some("A"), Some("B")}, {Some(300)},
                        {Null, Some(""), Some("g1"), Some("g2")}, {Some("google")}),
             SfCsvRows({"A"}, {Some(400)}, {Some(300)},
                       {"Confirmed"}, {"google"}, {"", "g1", "g2"}),
             {TRUE})

SpecAttribution == InitAttribution /\ [][Next]_vars

\* timestamps vary: missing, in the same minute, either side the earlier one
InitTiming ==
    InitWith(Ga4CsvRows({20251001}, {Null, Some(59000000), Some(61000000), Some(600000000)},
                        {"user_1"}, {Some("A")}, {Some(300)}, {Some("g1")}, {Some("google")}),
             SfCsvRows({"A"}, {Null, Some(30), Some(60), Some(86700)}, {Some(300)},
                       {"Confirmed"}, {"google"}, {"g1"}),
             {TRUE})

SpecTiming == InitTiming /\ [][Next]_vars

\* amounts vary: missing, zero and positive
InitRevenue ==
    InitWith(Ga4CsvRows({20251001}, {Some(90000000)}, {"user_1"},
                        {Some("A"), Some("B")},
                        {Null, Some(0), Some(300), Some(1000)}, {Some("g1")}, {Some("google")}),
             SfCsvRows({"A"}, {Some(400)}, {Null, Some(100), Some(900)},
                       {"Confirmed"}, {"google"}, {"g1"}),
             BOOLEAN)

SpecRevenue == InitRevenue /\ [][Next]_vars

\* users and amounts vary: the test user, another one and none, an amount
\* below the low-value limit, one at the limit and none
InitReasons ==
    InitWith(Ga4CsvRows({20251001}, {Some(90000000)}, {"", "test_user_internal", "user_1"},
                        {Some("A"), Some("B")},
                        {Null, Some(99), Some(100)}, {Some("g1")}, {Some("google")}),
             SfCsvRows({"A"}, {Some(400)}, {Some(300)},
                       {"Confirmed"}, {"google"}, {"g1"}),
             {TRUE})

SpecReasons == InitReasons /\ [][Next]_vars

\* a purchase event whose event_params cell eval cannot read
MalformedEvent ==
    [event_date |-> 20251001, event_timestamp |-> Some(90000000),
     user_pseudo_id |-> "user_1", event_params |-> MalformedCell]

\* runs, failures and retries vary; events with two keys and events that
\* cannot be read, confirmed and cancelled opportunities
InitDag ==
    InitWith(Ga4CsvRows({20251001}, {Some(90000000)}, {"user_1"},
                        {Some("A"), Some("B")}, {Some(300)}, {Some("g1")}, {Some("google")})
                 \cup {MalformedEvent},
             SfCsvRows({"A"}, {Some(400)}, {Some(300)},
                       {"Cancelled", "Confirmed"}, {"google"}, {"g1"}),
             {TRUE})

SpecDag == InitDag /\ [][NextDag]_vars

\* the confirmation number of the booking made on day d of October 2025
DayKey(d) ==
    <<"K1", "K2", "K3", "K4", "K5", "K6", "K7", "K8",
      "K9", "K10", "K11", "K12", "K13", "K14", "K15", "K16">>[d]

RECURSIVE Ascending(_)
Ascending(S) ==
    IF S = {} THEN <<>>
    ELSE LET m == CHOOSE x \in S : \A y \in S : x <= y
         IN  <<m>> \o Ascending(S \ {m})

\* a file with one purchase event on each of the given days
Ga4DailyFile(days) ==
    LET order == Ascending(days)
    IN  [i \in DOMAIN order |->
            [event_date |-> 20251000 + order[i],
             event_timestamp |-> Some(90000000), user_pseudo_id |-> "user_1",
             event_params |-> CellText(EventParams(Some(DayKey(order[i])), Some(300),
                                                   Some("g1"), Some("google")))]]

\* dates vary: a booking on all but at most two of the first MaxDays days of
\* the month, which makes more dates than the trend shows; opportunities for
\* the booking of the last of these days or for none, created on that day,
\* on the twentieth or at no known time
InitTrend ==
    InitFiles({Ga4DailyFile((1..MaxDays) \ skipped) :
                  skipped \in {m \in SUBSET (1..MaxDays) : Cardinality(m) <= 2}},
              SeqsUpTo(SfCsvRows({DayKey(MaxDays), "Z"},
                                 {Null, Some((MaxDays - 1) * 86400 + 400), Some(1641600 + 400)},
                                 {Some(300)}, {"Confirmed"}, {"google"}, {"g1"}), MaxSf),
              {TRUE})

SpecTrend == InitTrend /\ [][Next]_vars

----------------------------------------------------------------------------
(* Properties of the reconciliation output *)

Built == booking_reconciliation.exists

Out == booking_reconciliation.rows

\* the two inputs of the join
LeftIn == Ga4Bookings(staging_ga4_events.rows)

RightIn == SfOpportunities(staging_salesforce_opportunities.rows)

\* the records of a join input that carry key k
WithKey(side, k) == {i \in DOMAIN side : side[i].transaction_id = Some(k)}

KeysOf(side) ==
    {side[i].transaction_id[1] : i \in {n \in DOMAIN side : NotNull(side[n].transaction_id)}}

AllKeys == KeysOf(LeftIn) \cup KeysOf(RightIn)

\* no key occurs more than once on either side
UniqueKeys ==
    \A k \in AllKeys : Cardinality(WithKey(LeftIn, k)) <= 1
                       /\ Cardinality(WithKey(RightIn, k)) <= 1

RowsWithKey(k) == {i \in DOMAIN Out : Out[i].transaction_id = Some(k)}

RowsWithStatus(st) == {i \in DOMAIN Out : Out[i].match_status = Some(st)}

\* C1 (key coverage): when no key occurs more than once on a side of the
\* join input, the output holds exactly one row for every key of the left or
\* the right side, and every keyed row carries one of those keys.
KeyCoverage ==
    (Built /\ UniqueKeys) =>
        /\ \A k \in AllKeys : Cardinality(RowsWithKey(k)) = 1
        /\ \A i \in DOMAIN Out :
              NotNull(Out[i].transaction_id) => Out[i].transaction_id[1] \in AllKeys

\* unique keys, a key on both sides, a key on the left only, one on the right only
KeyCoverageWitness ==
    /\ Built /\ UniqueKeys
    /\ KeysOf(LeftIn) \cap KeysOf(RightIn) # {}
    /\ KeysOf(LeftIn) \ KeysOf(RightIn) # {}
    /\ KeysOf(RightIn) \ KeysOf(LeftIn) # {}

\* the records of the right join input that carry a key
RightKeyed == {j \in DOMAIN RightIn : NotNull(RightIn[j].transaction_id)}

NumMatched == Cardinality(RowsWithStatus("matched"))

NumLeftOnly == Cardinality(RowsWithStatus("ga4_only"))

NumRightOnly == Cardinality(RowsWithStatus("sf_only"))

FirstOf(side, ts, k) ==
    CHOOSE i \in WithKey(side, k) :
        \A n \in WithKey(side, k) :
            \/ NotNull(ts[i]) /\ IsNull(ts[n])
            \/ NotNull(ts[i]) /\ NotNull(ts[n]) /\ ts[i][1] < ts[n][1]
            \/ ts[i] = ts[n] /\ i <= n

LeftFirst(k) == FirstOf(LeftIn, [i \in DOMAIN LeftIn |-> LeftIn[i].booking_timestamp], k)

RightFirst(k) == FirstOf(RightIn, [i \in DOMAIN RightIn |-> RightIn[i].opportunity_timestamp], k)

\* C3 (first wins) as claimed: one row per key, built from the first record
\* of each side; as many keyed rows as there are distinct keys.
FirstWins ==
    Built =>
        /\ \A k \in AllKeys :
              /\ Cardinality(RowsWithKey(k)) = 1
              /\ \A i \in RowsWithKey(k) :
                    /\ WithKey(LeftIn, k) # {} =>
                          Out[i].ga4_row = LeftIn[LeftFirst(k)].src
                    /\ WithKey(RightIn, k) # {} =>
                          Out[i].sf_row = RightIn[RightFirst(k)].src
        /\ Cardinality({i \in DOMAIN Out : NotNull(Out[i].transaction_id)})
              = Cardinality(AllKeys)

\* C3 amended: a key with m left and n right records gets one row for every
\* pair of a left and a right record (m * n rows), or one row per record when
\* one side has none; so one row exactly when the key is not duplicated.
PairPerRow ==
    Built =>
        \A k \in AllKeys :
            LET L == WithKey(LeftIn, k)
                R == WithKey(RightIn, k)
            IN  /\ Cardinality(RowsWithKey(k)) =
                      IF L # {} /\ R # {} THEN Cardinality(L) * Cardinality(R)
                      ELSE Cardinality(L) + Cardinality(R)
                /\ \A l \in L : \A r \in R :
                      Cardinality({i \in RowsWithKey(k) :
                                      /\ Out[i].ga4_row = LeftIn[l].src
                                      /\ Out[i].sf_row = RightIn[r].src}) = 1
                /\ R = {} => \A l \in L :
                      Cardinality({i \in RowsWithKey(k) :
                                      Out[i].ga4_row = LeftIn[l].src /\ Out[i].sf_row = 0}) = 1
                /\ L = {} => \A r \in R :
                      Cardinality({i \in RowsWithKey(k) :
                                      Out[i].sf_row = RightIn[r].src /\ Out[i].ga4_row = 0}) = 1

\* a key with two records on each side and four rows
PairPerRowWitness ==
    /\ Built
    /\ \E k \in AllKeys :
          /\ Cardinality(WithKey(LeftIn, k)) = 2
          /\ Cardinality(WithKey(RightIn, k)) = 2
          /\ Cardinality(RowsWithKey(k)) = 4

\* C4 (status taxonomy): every row is matched, ga4_only or sf_only; matched
\* iff a left and a right record contributed, ga4_only iff only a left one
\* (the right columns NULL), sf_only iff only a right one (the left columns
\* NULL); no row has a NULL status.
StatusTaxonomy ==
    Built =>
        \A i \in DOMAIN Out :
            LET r == Out[i]
                rightUnset == /\ IsNull(r.sf_booking_value) /\ IsNull(r.stage_name)
                              /\ IsNull(r.booking_source) /\ IsNull(r.sf_gclid)
                leftUnset  == /\ IsNull(r.ga4_booking_value) /\ IsNull(r.ga4_gclid)
                              /\ IsNull(r.ga4_utm_source) /\ IsNull(r.is_test_booking)
            IN  /\ r.match_status \in {Some("matched"), Some("ga4_only"), Some("sf_only")}
                /\ r.match_status = Some("matched") <=> (r.ga4_row # 0 /\ r.sf_row # 0)
                /\ r.match_status = Some("ga4_only") <=> (r.ga4_row # 0 /\ r.sf_row = 0)
                /\ r.match_status = Some("sf_only") <=> (r.ga4_row = 0 /\ r.sf_row # 0)
                /\ r.match_status = Some("ga4_only") => rightUnset
                /\ r.match_status = Some("sf_only") => leftUnset

\* the staging records a row was joined from
LeftRecord(r) == staging_ga4_events.rows[r.ga4_row]

RightRecord(r) == staging_salesforce_opportunities.rows[r.sf_row]

\* a business key that is neither missing nor empty
HasKey(key) == NotNull(key) /\ key # Some("")

\* C5 (no record without a key is reconciled): no GA4 event with a NULL or
\* empty transaction_id and no Salesforce opportunity with a NULL or empty
\* confirmation_number contributes to a row of the output.
KeylessDropped ==
    Built =>
        \A i \in DOMAIN Out :
            /\ Out[i].ga4_row # 0 => HasKey(LeftRecord(Out[i]).transaction_id)
            /\ Out[i].sf_row # 0 => HasKey(RightRecord(Out[i]).confirmation_number)

Contributes(j) == \E i \in DOMAIN Out : Out[i].sf_row = j

\* C6 (cancelled records): a Salesforce record is left out exactly when its
\* stage is 'Cancelled'; a keyed record with another stage, or with no
\* stage, contributes to a row.
CancelledExcluded ==
    Built =>
        \A j \in DOMAIN staging_salesforce_opportunities.rows :
            LET r == staging_salesforce_opportunities.rows[j]
            IN  /\ r.stage_name = Some("Cancelled") => ~Contributes(j)
                /\ (NotNull(r.confirmation_number) /\ r.stage_name # Some("Cancelled"))
                      => Contributes(j)

\* a click id that is neither missing nor empty
HasToken(token) == NotNull(token) /\ token # Some("")

LeftToken(r) == IF r.ga4_row = 0 THEN Null ELSE LeftRecord(r).gclid

RightToken(r) == IF r.sf_row = 0 THEN Null ELSE RightRecord(r).gclid__c

\* C7 (attribution status): gclid_matched iff both sides have a non-empty
\* token and the tokens are equal, gclid_mismatch iff both have one and they
\* differ, gclid_in_ga4_only / gclid_in_sf_only iff only that side has one,
\* no_gclid iff neither has; an empty token counts as no token.
AttributionStatus ==
    Built =>
        \A i \in DOMAIN Out :
            LET l == LeftToken(Out[i])
                r == RightToken(Out[i])
            IN  Out[i].gclid_status =
                    IF HasToken(l) /\ HasToken(r)
                    THEN (IF l = r THEN "gclid_matched" ELSE "gclid_mismatch")
                    ELSE IF HasToken(l) THEN "gclid_in_ga4_only"
                    ELSE IF HasToken(r) THEN "gclid_in_sf_only"
                    ELSE "no_gclid"

\* the timestamps of the two records of a row, in seconds
LeftSeconds(r) ==
    IF r.ga4_row = 0 \/ IsNull(LeftRecord(r).event_timestamp) THEN Null
    ELSE Some(LeftRecord(r).event_timestamp[1] \div MicrosPerSecond)

RightSeconds(r) == IF r.sf_row = 0 THEN Null ELSE RightRecord(r).created_date

CoalescedDateAndKey ==
    Built =>
        \A i \in DOMAIN Out :
            LET r == Out[i]
            IN  /\ r.transaction_id =
                      IF r.ga4_row # 0 THEN LeftRecord(r).transaction_id
                      ELSE RightRecord(r).confirmation_number
                /\ r.date =
                      IF r.ga4_row # 0
                      THEN Some(LeftRecord(r).event_date - StartEventDate)
                      ELSE IF IsNull(RightRecord(r).created_date) THEN Null
                      ELSE Some(RightRecord(r).created_date[1] \div 86400)
                /\ NotNull(r.date)
                /\ NotNull(r.transaction_id)

RECURSIVE SumOver(_, _)
\* the sum of a function over a finite set of its arguments
SumOver(f, S) ==
    IF S = {} THEN 0
    ELSE LET x == CHOOSE y \in S : TRUE IN f[x] + SumOver(f, S \ {x})

Reported == NotNull(report)

MatchedRows == RowsWithStatus("matched")

\* the matched rows whose left (right) record has an amount
WithLeftAmount == {i \in MatchedRows : NotNull(LeftRecord(Out[i]).booking_value)}

WithRightAmount == {i \in MatchedRows : NotNull(RightRecord(Out[i]).amount)}

LeftTotal == SumOver([i \in WithLeftAmount |-> LeftRecord(Out[i]).booking_value[1]], WithLeftAmount)

RightTotal == SumOver([i \in WithRightAmount |-> RightRecord(Out[i]).amount[1]], WithRightAmount)

\* C10 (revenue reconciliation): the totals are the sums of the left and of
\* the right amounts over the matched rows only; the difference is left
\* total - right total; the percentage is difference / left total * 100 to
\* the nearest hundredth (1000 and 900 give 100 and 10.00, equal totals 0).
RevenueTotals ==
    Reported =>
        LET rev == report[1].revenue_summary
        IN  /\ rev.total_ga4_revenue = IF WithLeftAmount = {} THEN Null ELSE Some(LeftTotal)
            /\ rev.total_sf_revenue = IF WithRightAmount = {} THEN Null ELSE Some(RightTotal)
            /\ (WithLeftAmount # {} /\ WithRightAmount # {}) =>
                  /\ rev.revenue_difference = Some(LeftTotal - RightTotal)
                  /\ LeftTotal > 0 =>
                        /\ rev.diff_percentage.kind = "num"
                        /\ 2 * (rev.diff_percentage.val * LeftTotal
                                - (LeftTotal - RightTotal) * 10000) <= LeftTotal
                        /\ 2 * ((LeftTotal - RightTotal) * 10000
                                - rev.diff_percentage.val * LeftTotal) <= LeftTotal
                  /\ (LeftTotal = 1000 /\ RightTotal = 900) =>
                        /\ rev.revenue_difference = Some(100)
                        /\ rev.diff_percentage = Num("num", 1000)
                  /\ (LeftTotal = RightTotal) => rev.revenue_difference = Some(0)

\* matched totals 1000 and 900 next to a ga4_only row that has an amount
RevenueTotalsWitness ==
    /\ Reported
    /\ report[1].revenue_summary.total_ga4_revenue = Some(1000)
    /\ report[1].revenue_summary.total_sf_revenue = Some(900)
    /\ report[1].revenue_summary.diff_percentage = Num("num", 1000)
    /\ \E i \in RowsWithStatus("ga4_only") : NotNull(Out[i].ga4_booking_value)

----------------------------------------------------------------------------
(* Properties of the report *)

\* the values of match_status that occur in the output, NULL included
StatusesPresent == {Out[i].match_status : i \in DOMAIN Out}

PercentageSum ==
    SumOver([e \in report[1].match_summary |-> e.percentage], report[1].match_summary)

\* C12 (percentage closure): for a non-empty output the status distribution
\* has exactly one entry for every value of match_status that occurs in the
\* output, the count of an entry is the number of rows with that status, and
\* the percentages, each rounded to a hundredth, add up to 100.00 to within
\* 0.005 for every entry of the distribution.
PercentageClosure ==
    (Reported /\ Out # <<>>) =>
        LET summary == report[1].match_summary
        IN  /\ \A st \in StatusesPresent :
                  Cardinality({e \in summary : e.match_status = st}) = 1
            /\ \A e \in summary :
                  /\ e.match_status \in StatusesPresent
                  /\ e.record_count =
                        Cardinality({i \in DOMAIN Out : Out[i].match_status = e.match_status})
            /\ 2 * (PercentageSum - 10000) <= Cardinality(summary)
            /\ 2 * (10000 - PercentageSum) <= Cardinality(summary)

\* one matched, one ga4_only and one sf_only row: 33.33 each, 99.99 in all
PercentageClosureWitness ==
    /\ Reported
    /\ Len(Out) = 3
    /\ \A st \in {"matched", "ga4_only", "sf_only"} :
          [match_status |-> Some(st), record_count |-> 1, percentage |-> 3333]
              \in report[1].match_summary
    /\ PercentageSum = 9999

\* the dates that occur in the output, NULL included
DatesPresent == {Out[i].date : i \in DOMAIN Out}

RowsOfDate(d) == {i \in DOMAIN Out : Out[i].date = d}

TrendDates == {report[1].daily_trend[i].date : i \in DOMAIN report[1].daily_trend}

ReasonOf(i) ==
    IF LeftRecord(Out[i]).user_pseudo_id = Some("test_user_internal") THEN "Test Booking"
    ELSE IF NotNull(LeftRecord(Out[i]).booking_value)
            /\ LeftRecord(Out[i]).booking_value[1] < 100
    THEN "Low Value (Possible Fraud)"
    ELSE "Unknown - Needs Investigation"

ReasonCount(label) ==
    LET hits == {e \in report[1].ga4_only_analysis : e.likely_reason = label}
    IN  IF hits = {} THEN 0 ELSE (CHOOSE e \in hits : TRUE).count

\* C14 (likely reasons): every ga4_only row is counted under exactly one
\* reason: 'Test Booking' when its user is test_user_internal, otherwise
\* 'Low Value (Possible Fraud)' when its amount is below 100, otherwise
\* 'Unknown - Needs Investigation' (a missing amount included).  The
\* breakdown has at most one entry per reason, its counts add up to the
\* number of ga4_only rows, and no matched or sf_only row is counted.
LikelyReasons ==
    Reported =>
        LET labels == {"Test Booking", "Low Value (Possible Fraud)",
                       "Unknown - Needs Investigation"}
            breakdown == report[1].ga4_only_analysis
        IN  /\ \A e \in breakdown : e.likely_reason \in labels /\ e.count > 0
            /\ \A l \in labels :
                  /\ Cardinality({e \in breakdown : e.likely_reason = l}) <= 1
                  /\ ReasonCount(l) =
                        Cardinality({i \in RowsWithStatus("ga4_only") : ReasonOf(i) = l})
            /\ SumOver([l \in labels |-> ReasonCount(l)], labels)
                  = Cardinality(RowsWithStatus("ga4_only"))

\* a ga4_only booking of the test user with an amount below 100 is counted
\* as a test booking, and the matched booking with an amount below 100 is
\* not counted
LikelyReasonsWitness ==
    /\ Reported
    /\ \E i \in RowsWithStatus("ga4_only") :
          /\ LeftRecord(Out[i]).user_pseudo_id = Some("test_user_internal")
          /\ LeftRecord(Out[i]).booking_value = Some(99)
    /\ \E i \in RowsWithStatus("matched") : LeftRecord(Out[i]).booking_value = Some(99)
    /\ report[1].ga4_only_analysis =
          {[likely_reason |-> "Test Booking", count |-> 1]}

----------------------------------------------------------------------------
(* Properties of the runs of the DAG *)

Succeeded(t) == task_state[t] = "success"

\* what a single run without a failed attempt loads and builds from the files
SingleRunGa4 == FlattenEvents(raw_ga4_events)

SingleRunSf == ReadSalesforceCsv(raw_salesforce_opportunities)

SingleRunOutput == ReconciliationQuery(SingleRunGa4, SingleRunSf)

\* C15 (idempotence of re-runs): however often the extract steps and
\* build_reconciliation_model have been executed over the same files, in
\* retries and in later runs, a staging table holds exactly the rows a single
\* execution of its extract loads and the reconciliation table exactly the
\* rows a single execution builds (no row accumulates, none is changed in
\* place), and the report is the one of a single run.
RerunIdempotence ==
    /\ Succeeded("extract_ga4_events")
          => /\ staging_ga4_events.exists
             /\ Len(staging_ga4_events.rows) = Len(raw_ga4_events)
             /\ staging_ga4_events.rows = SingleRunGa4
    /\ Succeeded("extract_salesforce_opportunities")
          => /\ staging_salesforce_opportunities.exists
             /\ Len(staging_salesforce_opportunities.rows) = Len(raw_salesforce_opportunities)
             /\ staging_salesforce_opportunities.rows = SingleRunSf
    /\ Succeeded("build_reconciliation_model")
          => /\ booking_reconciliation.exists
             /\ Len(booking_reconciliation.rows) = Len(SingleRunOutput)
             /\ booking_reconciliation.rows = SingleRunOutput
    /\ Succeeded("generate_reconciliation_report")
          => report = Some(Report(SingleRunOutput, ieee_floating_point_ops))

\* the second run has built the table again, after an attempt of the GA4
\* extract and one of the build had failed in that run
RerunIdempotenceWitness ==
    /\ dag_run = 2
    /\ Succeeded("generate_reconciliation_report")
    /\ failed_tries["extract_ga4_events"] = 1
    /\ failed_tries["build_reconciliation_model"] = 1
    /\ Len(booking_reconciliation.rows) >= 2

\* a step of task t within a run
StepOf(t) == task_state'[t] # task_state[t] /\ dag_run' = dag_run

\* C16 (frame of the downstream tasks): a step of build_reconciliation_model
\* leaves the raw files and both staging tables unchanged and writes nothing
\* but reporting.booking_reconciliation; a step of data_quality_checks or of
\* generate_reconciliation_report leaves every table unchanged.
DownstreamFrame ==
    [][/\ StepOf("build_reconciliation_model")
           => UNCHANGED <<raw_ga4_events, raw_salesforce_opportunities,
                          staging_ga4_events, staging_salesforce_opportunities,
                          quality, report>>
       /\ (StepOf("data_quality_checks") \/ StepOf("generate_reconciliation_report"))
           => UNCHANGED <<raw_ga4_events, raw_salesforce_opportunities,
                          staging_ga4_events, staging_salesforce_opportunities,
                          booking_reconciliation>>]_vars

\* the three tasks have run over staging tables with rows, in a second run
\* in which the reconciliation table was there before the build
DownstreamFrameWitness ==
    /\ dag_run = 2
    /\ Succeeded("generate_reconciliation_report")
    /\ staging_ga4_events.rows # <<>>
    /\ staging_salesforce_opportunities.rows # <<>>
    /\ booking_reconciliation.rows # <<>>

\* the records of the GA4 file that eval can read, in the order of the file
WellFormedRecords ==
    SelectSeq(raw_ga4_events, LAMBDA row : row.event_params.well_formed)

\* C17 (malformed record skipped): when one record of the GA4 file has an
\* attribute encoding that cannot be read, extract_ga4_events still runs to
\* its end and loads every record that can be read.
MalformedSkipped ==
    (/\ Cardinality(MalformedRecords(raw_ga4_events)) = 1
     /\ task_state["extract_ga4_events"] \in {"success", "failed"})
        => /\ Succeeded("extract_ga4_events")
           /\ staging_ga4_events = Table(FlattenEvents(WellFormedRecords))

Started(t) == task_state[t] # "none"

\* C18 (pipeline order): no extract has started unless generate_sample_data
\* has succeeded, data_quality_checks has not started unless both extracts
\* have succeeded, build_reconciliation_model not unless data_quality_checks
\* has, the report not unless the build has; a task fails for good only
\* after its second failed attempt (one retry), and then no task downstream
\* of it has started.
PipelineOrder ==
    /\ Started("extract_ga4_events") => Succeeded("generate_sample_data")
    /\ Started("extract_salesforce_opportunities") => Succeeded("generate_sample_data")
    /\ Started("data_quality_checks")
          => Succeeded("extract_ga4_events") /\ Succeeded("extract_salesforce_opportunities")
    /\ Started("build_reconciliation_model") => Succeeded("data_quality_checks")
    /\ Started("generate_reconciliation_report") => Succeeded("build_reconciliation_model")
    /\ \A t \in Tasks :
          /\ task_state[t] = "failed" <=> failed_tries[t] = 2
          /\ task_state[t] = "up_for_retry" => failed_tries[t] = 1
          /\ failed_tries[t] <= 2
    /\ task_state["generate_sample_data"] = "failed"
          => \A t \in Tasks \ {"generate_sample_data"} : ~Started(t)
    /\ (task_state["extract_ga4_events"] = "failed"
         \/ task_state["extract_salesforce_opportunities"] = "failed")
          => \A t \in {"data_quality_checks", "build_reconciliation_model",
                        "generate_reconciliation_report"} : ~Started(t)
    /\ task_state["data_quality_checks"] = "failed"
          => \A t \in {"build_reconciliation_model",
                        "generate_reconciliation_report"} : ~Started(t)
    /\ task_state["build_reconciliation_model"] = "failed"
          => ~Started("generate_reconciliation_report")

\* in a second run, over tables the first run has left, the Salesforce
\* extract has succeeded after a retry and the GA4 extract has failed twice:
\* nothing downstream has started
PipelineOrderWitness ==
    /\ dag_run = 2
    /\ booking_reconciliation.exists
    /\ RunOver
    /\ task_state["extract_ga4_events"] = "failed"
    /\ Succeeded("extract_salesforce_opportunities")
    /\ failed_tries["extract_salesforce_opportunities"] = 1
    /\ ~Started("data_quality_checks")

\* C19 (isolation of the extracts): whatever step the other extract is at,
\* an extract that has completed has left its own staging table with the
\* rows of its own file, so once both have completed both tables are those
\* of a sequential run, and the quality counts and the reconciliation table
\* computed from them are those of a sequential run.
ExtractIsolation ==
    /\ Succeeded("extract_ga4_events")
          => staging_ga4_events = Table(SingleRunGa4)
    /\ Succeeded("extract_salesforce_opportunities")
          => staging_salesforce_opportunities = Table(SingleRunSf)
    /\ Succeeded("data_quality_checks")
          => quality = Some(QualityCounts(SingleRunGa4, SingleRunSf))
    /\ Succeeded("build_reconciliation_model")
          => booking_reconciliation = Table(SingleRunOutput)

\* the GA4 extract has completed while the Salesforce extract is between
\* its DROP and its CREATE
ExtractIsolationWitness ==
    /\ Succeeded("extract_ga4_events")
    /\ staging_ga4_events.rows # <<>>
    /\ task_state["extract_salesforce_opportunities"] = "dropped"
    /\ ~staging_salesforce_opportunities.exists

====
